---- MODULE Spec2Model ----
(***************************************************************************)
(* Order workflow of the wild-wash API: order creation, the status         *)
(* transition handler (OrderUpdateView.patch), rider assignment, the       *)
(* post_save hook, the admin actions and the audit trail (OrderEvent).     *)
(***************************************************************************)
EXTENDS Integers, Sequences, FiniteSets, TLC

\* Python None / SQL NULL, for every nullable column and absent request key.
NONE == "None"

\* ------------------------------------------------------------------ bounds
\* Number of requests (create, patch, accept, admin action, command) in a run.
MaxCalls == 4
\* Largest completed_jobs value a rider profile starts with.
MaxJobs == 1
\* Number of orders created in a run.
MaxOrders == 1

\* ------------------------------------------------------- directory (users)
Locations == <<"Juja", "Kilimani", "Westlands">>      \* Location.Meta.ordering = ['name']

LocationNames == {Locations[i] : i \in 1..Len(Locations)}

Account(su, st, act, role, stype, loc, text, phone) ==
    [is_superuser |-> su, is_staff |-> st, is_active |-> act, role |-> role,
     staff_type |-> stype, service_location |-> loc, location |-> text,
     phone |-> phone]

\* The accounts of the deployment: users.User rows.
User ==
    [u \in {"admin", "staffJ", "staffK", "staffW", "staffN", "washJ", "foldJ", "foldW",
            "cust", "custJ", "guest_orders", "r0", "r1", "r2", "r3"} |->
       CASE u = "admin"  -> Account(TRUE, TRUE, TRUE, "admin", "general", NONE, NONE, NONE)
         [] u = "staffJ" -> Account(FALSE, TRUE, TRUE, "staff", "general", "Juja", NONE, NONE)
         [] u = "staffK" -> Account(FALSE, TRUE, TRUE, "staff", "general", "Kilimani", NONE, NONE)
         [] u = "staffW" -> Account(FALSE, TRUE, TRUE, "staff", "general", "Westlands", NONE, NONE)
         [] u = "staffN" -> Account(FALSE, TRUE, TRUE, "staff", "general", NONE, NONE, NONE)
         [] u = "washJ"  -> Account(FALSE, FALSE, TRUE, "washer", "washer", "Juja", NONE, NONE)
         [] u = "foldJ"  -> Account(FALSE, FALSE, TRUE, "folder", "folder", "Juja", NONE, "+254700000001")
         [] u = "foldW"  -> Account(FALSE, FALSE, TRUE, "folder", "folder", "Westlands", NONE, NONE)
         [] u = "cust"   -> Account(FALSE, FALSE, TRUE, "customer", "general", NONE, NONE, "+254700000002")
         [] u = "custJ"  -> Account(FALSE, FALSE, TRUE, "customer", "general", NONE, " Juja", NONE)
         [] u = "guest_orders" -> Account(FALSE, FALSE, FALSE, "customer", "general", NONE, NONE, NONE)
         [] u = "r0"     -> Account(FALSE, FALSE, FALSE, "rider", "general", "Juja", NONE, NONE)
         [] u = "r1"     -> Account(FALSE, FALSE, TRUE, "rider", "general", "Juja", NONE, "+254700000003")
         [] u = "r2"     -> Account(FALSE, FALSE, TRUE, "rider", "general", "Juja", NONE, NONE)
         [] u = "r3"     -> Account(FALSE, FALSE, TRUE, "rider", "general", "Westlands", NONE, NONE)]

UserNames == DOMAIN User

Riders == {u \in UserNames : User[u].role = "rider"}

\* ------------------------------------------------------------ str helpers
\* str.lower() on the strings that occur in the model.
Lower(s) ==
    CASE s = "Ready" -> "ready"
      [] s = "To be assigned" -> "to be assigned"
      [] s = "TO BE ASSIGNED" -> "to be assigned"
      [] s = " Juja" -> " juja"
      [] s = "Juja" -> "juja"
      [] s = "Kilimani" -> "kilimani"
      [] s = "Westlands" -> "westlands"
      [] s = "Juja Road 12" -> "juja road 12"
      [] s = "Thika Town" -> "thika town"
      [] s = "Test Pickup Address" -> "test pickup address"
      [] OTHER -> s

\* str.strip() on the strings that occur in the model.
Strip(s) ==
    CASE s = " " -> ""
      [] s = " Juja" -> "Juja"
      [] s = " juja" -> "juja"
      [] OTHER -> s

\* Python `needle in haystack` on lower-cased strings of the model.
IsSubstring(needle, haystack) ==
    \/ needle = haystack
    \/ needle = ""
    \/ needle = "juja" /\ haystack \in {"juja road 12", " juja"}

\* Python truth value of a str-or-None.
Truthy(s) == s # NONE /\ s # ""

VARIABLES
    orders,          \* orders.Order rows, id = index
    events,          \* orders.OrderEvent rows per order, by created_at
    notifications,   \* notifications.Notification rows, by created_at
    sms,             \* messages handed to the SMS provider, in order
    active_locations,\* names of the Location rows with is_active
    completed_jobs,  \* RiderProfile.completed_jobs per rider
    active_riders,   \* the rider accounts with is_active
    inflight,        \* requests that have read their order and not yet saved
    ever_delivered,  \* history: orders that transitioned into delivered
    calls,           \* requests served so far (the clock)
    last             \* the request served last and its response

vars == <<orders, events, notifications, sms, active_locations, completed_jobs,
          active_riders, inflight, ever_delivered, calls, last>>

\* --------------------------------------------------------------- requests
\* What a request lets fail: the in-app Notification insert for a kind of
\* recipient, or every call to the SMS provider.
FailPoints == {"notif_customer", "notif_admin", "notif_folder", "notif_rider", "sms"}

\* A notification row; `code` is the order code its message quotes.
Notif(u, id, code, type, msg) ==
    [user |-> u, order |-> id, code |-> code, notification_type |-> type, message |-> msg]

Sms(phone, id, msg) == [to |-> phone, order |-> id, message |-> msg]

Event(type, actor, data) == [event_type |-> type, actor |-> actor, data |-> data]

\* A request in flight: the order instance in memory (written through on each
\* save), the rows it has inserted so far, the kinds of rows it wrote after it
\* had already sent a notification or an SMS, and the response once decided.
Ctx(id, order) ==
    [id |-> id, order |-> order, ev |-> <<>>, nt |-> <<>>, sm |-> <<>>,
     late |-> {}, resp |-> 0]

\* A write of `kind` ("order_row" or "event_row") made now by the request.
Written(c, kind) ==
    IF c.nt # <<>> \/ c.sm # <<>> THEN [c EXCEPT !.late = @ \cup {kind}] ELSE c

\* ------------------------------------------------------- staff pool index
\* User.objects.filter(role='rider', service_location=loc, is_active=True)
ActiveRidersAt(loc) ==
    {u \in Riders : u \in active_riders /\ User[u].service_location = loc}

\* User.objects.filter(role='rider', is_active=True)
ActiveRiders == {u \in Riders : u \in active_riders}

LeastBusyDesc(pool, jobs) ==
    {r \in pool : \A q \in pool : jobs[r] >= jobs[q]}

\* .order_by('rider_profile__completed_jobs').first(): the riders that may
\* come first (ties are ordered by the database as it pleases).
LeastBusy(pool, jobs) ==
    {r \in pool : \A q \in pool : jobs[r] <= jobs[q]}

\* Primary keys of the rider accounts.
RiderPk == [r \in Riders |-> CASE r = "r0" -> 1 [] r = "r1" -> 2 [] r = "r2" -> 3 [] OTHER -> 4]

\* How the database orders rows that tie on completed_jobs.
TieBreaks == {"pk_asc", "pk_desc"}

\* queryset.order_by('rider_profile__completed_jobs').first(), NONE when the
\* queryset is empty.
First(pool, tb) ==
    IF pool = {} THEN NONE
    ELSE LET least == LeastBusy(pool, completed_jobs) IN
         CHOOSE r \in least : \A q \in least :
             IF tb = "pk_asc" THEN RiderPk[r] <= RiderPk[q] ELSE RiderPk[r] >= RiderPk[q]

\* --------------------------------------------------------- post_save hook
\* order_status_update for a save of an existing row (created = False): the
\* customer's notification, its failure swallowed.
OnSave(c, fails) ==
    IF c.order.user # NONE /\ "notif_customer" \notin fails
    THEN [Written(c, "order_row") EXCEPT
            !.nt = Append(@, Notif(c.order.user, c.id, c.order.code, "order_update", "status"))]
    ELSE Written(c, "order_row")

\* ------------------------------------------------ value conversions (patch)
\* django.utils.dateparse.parse_datetime, then str() of the datetime stored:
\* a DateTimeField is modelled by the str() of its value.
ParseDatetime(s) ==
    CASE s = "2024-05-01T10:00:00+00:00" -> "2024-05-01 10:00:00+00:00"
      [] s = "2024-05-01 10:00:00+00:00" -> "2024-05-01 10:00:00+00:00"
      [] OTHER -> NONE

\* Decimal(str(x)) stored in a DecimalField(decimal_places=2) and read back:
\* a DecimalField is modelled by the str() of its value.
ToDecimal(s) ==
    CASE s = "100" -> "100.00"
      [] s = "250" -> "250.00"
      [] s = "2.5" -> "2.50"
      [] s = "2.3" -> "2.30"
      [] OTHER -> s

\* Python `float == Decimal`: exact comparison of the binary float with the
\* decimal; 2.5 is exactly 2.50, 2.3 is not exactly 2.30.
FloatEqualsDecimal(f, d) == f = "2.5" /\ d = "2.50"

DetailFields == {"quantity", "weight_kg", "description", "actual_price", "delivered_at"}

\* The fields the handler reports as changed: request value present and
\* unequal to the old value (actual_price and delivered_at compared by str()).
ChangedDetails(old, req) ==
    {f \in DetailFields :
        /\ req[f] # NONE
        /\ CASE f = "weight_kg" -> ~FloatEqualsDecimal(req[f], old[f])
             [] OTHER -> old[f] # req[f]}

\* ------------------------------------------------ transition handler steps
\* LocationBasedPermission.has_permission
HasPermission(actor) ==
    \/ User[actor].is_superuser
    \/ ~(User[actor].is_staff /\ User[actor].service_location = NONE)

LocationDeniedNoSuperuser(actor, order) ==
    /\ User[actor].is_staff
    /\ \/ User[actor].service_location = NONE
       \/ order.service_location # User[actor].service_location

\* OrderUpdateView.patch: the staff location check.
LocationDenied(actor, order) ==
    /\ User[actor].is_staff /\ ~User[actor].is_superuser
    /\ \/ User[actor].service_location = NONE
       \/ order.service_location # User[actor].service_location

\* The provided fields set on the instance, then order.save().
ApplyFields(c, req, fails) ==
    OnSave([c EXCEPT !.order =
        [@ EXCEPT !.status = IF Truthy(req.status) THEN req.status ELSE @,
                  !.quantity = IF req.quantity # NONE THEN req.quantity ELSE @,
                  !.weight_kg = IF req.weight_kg # NONE THEN ToDecimal(req.weight_kg) ELSE @,
                  !.description = IF req.description # NONE THEN req.description ELSE @,
                  !.actual_price = IF req.actual_price # NONE THEN ToDecimal(req.actual_price) ELSE @]],
        fails)

\* delivered_at from the request, saved on its own when it parses.
ApplyDeliveredAt(c, req, fails) ==
    IF req.delivered_at # NONE /\ ParseDatetime(req.delivered_at) # NONE
    THEN OnSave([c EXCEPT !.order.delivered_at = ParseDatetime(req.delivered_at)], fails)
    ELSE c

StatusEventIgnoringCase(c, old, req, actor) ==
    IF Truthy(req.status) /\ Lower(old.status) # Lower(req.status)
    THEN [Written(c, "event_row") EXCEPT !.ev = Append(@, Event("status_changed", actor,
                                   [old |-> old.status, new |-> req.status]))]
    ELSE c

\* The status_changed event.
StatusEvent(c, old, req, actor) ==
    IF Truthy(req.status) /\ old.status # req.status
    THEN [Written(c, "event_row") EXCEPT !.ev = Append(@, Event("status_changed", actor,
                                   [old |-> old.status, new |-> req.status]))]
    ELSE c

\* The details_updated event.
DetailsEvent(c, old, req, actor) ==
    IF ChangedDetails(old, req) # {}
    THEN [Written(c, "event_row") EXCEPT !.ev = Append(@, Event("details_updated", actor,
                 [f \in ChangedDetails(old, req) |-> [old |-> old[f], new |-> req[f]]]))]
    ELSE c

\* User.objects.filter(service_location=loc, staff_type='folder', is_active=True)
FolderStaff(loc) ==
    {u \in UserNames : /\ User[u].staff_type = "folder" /\ User[u].is_active
                       /\ User[u].service_location = loc}

RECURSIVE NotifyEach(_, _, _, _)
\* One Notification per recipient, in the queryset's order.
NotifyEach(c, us, type, msg) ==
    IF us = {} THEN c
    ELSE LET u == CHOOSE x \in us : TRUE IN
         NotifyEach([c EXCEPT !.nt = Append(@, Notif(u, c.id, c.order.code, type, msg))],
                    us \ {u}, type, msg)

RECURSIVE SmsEach(_, _, _)
SmsEach(c, us, msg) ==
    IF us = {} THEN c
    ELSE LET u == CHOOSE x \in us : TRUE IN
         SmsEach([c EXCEPT !.sm = Append(@, Sms(User[u].phone, c.id, msg))], us \ {u}, msg)

\* The washer stamp of the washed branch.
StampWasher(c, actor, now, fails) ==
    IF User[actor].is_staff \/ User[actor].staff_type = "washer"
    THEN OnSave([c EXCEPT !.order.washer = actor, !.order.washed_at = now], fails)
    ELSE c

\* The SMS to the folders with a phone, inside the folders' try block.
TextFolders(c, folders, fails) ==
    IF "sms" \in fails THEN c
    ELSE SmsEach(c, {u \in folders : Truthy(User[u].phone)}, "folding")

\* The folders' notifications and SMS, inside one try block.
NotifyFolders(c, folders, fails) ==
    IF "notif_folder" \in fails /\ folders # {} THEN c
    ELSE TextFolders(NotifyEach(c, folders, "order_update", "folding"), folders, fails)

\* status changed to washed.
OnWashed(c, actor, now, fails) ==
    NotifyFolders(StampWasher(c, actor, now, fails),
                  FolderStaff(c.order.service_location), fails)

HasDeliveryAddressAlways(order) == TRUE

\* has_delivery_address of the ready branch.
HasDeliveryAddress(order) ==
    /\ Truthy(order.dropoff_address)
    /\ Lower(order.dropoff_address) # "to be assigned"
    /\ Strip(order.dropoff_address) # ""

\* The ready branch looks for a rider: no rider yet, a service location, and
\* for a manual order a delivery address.
SeeksRider(order) ==
    /\ order.order_type = "manual" => HasDeliveryAddress(order)
    /\ order.rider = NONE
    /\ order.service_location # NONE

\* assigned_rider of the ready branch, from the order as it enters the branch.
AssignedRider(order, tb) ==
    IF SeeksRider(order) THEN First(ActiveRidersAt(order.service_location), tb)
    ELSE IF order.order_type = "manual" THEN NONE
    ELSE order.rider

\* The folder stamp of the ready branch.
StampFolder(c, actor, now, fails) ==
    IF User[actor].staff_type = "folder"
    THEN OnSave([c EXCEPT !.order.folder = actor, !.order.folded_at = now], fails)
    ELSE c

\* order.rider = available_riders.first(); save(update_fields=['rider','status'])
AssignRider(c, tb, fails) ==
    IF SeeksRider(c.order) /\ ActiveRidersAt(c.order.service_location) # {}
    THEN OnSave([c EXCEPT !.order.rider = First(ActiveRidersAt(c.order.service_location), tb),
                          !.order.status = IF @ = "pending_assignment" THEN "requested" ELSE @],
                fails)
    ELSE c

\* An SMS to the order's customer, inside its own try block.
CustomerSms(c, msg, fails) ==
    IF c.order.user # NONE /\ Truthy(User[c.order.user].phone) /\ "sms" \notin fails
    THEN [c EXCEPT !.sm = Append(@, Sms(User[c.order.user].phone, c.id, msg))]
    ELSE c

\* The rider's SMS (own try block) and the assigned_rider event.
TextRiderAndLog(c, rider, actor, fails) ==
    [Written(c, "event_row") EXCEPT !.sm = IF Truthy(User[rider].phone) /\ "sms" \notin fails
                     THEN Append(@, Sms(User[rider].phone, c.id, "ready_for_delivery"))
                     ELSE @,
              !.ev = Append(@, Event("assigned_rider", actor, [rider_username |-> rider]))]

\* The rest of the ready branch once assigned_rider is known: the rider's
\* Notification row is inserted outside any try block, so a failing insert
\* leaves the branch for the handler's outer except (response 500).
TellRider(c, rider, actor, fails) ==
    IF rider = NONE THEN CustomerSms(c, "ready", fails)
    ELSE IF "notif_rider" \in fails THEN [c EXCEPT !.resp = 500]
    ELSE CustomerSms(
            TextRiderAndLog(
                [c EXCEPT !.nt = Append(@, Notif(rider, c.id, c.order.code, "order_update", "ready_for_delivery"))],
                rider, actor, fails),
            "ready", fails)

\* The ready branch after the folder stamp.
FindRider(c, actor, tb, fails) ==
    TellRider(AssignRider(c, tb, fails), AssignedRider(c.order, tb), actor, fails)

\* status changed to ready.
OnReady(c, actor, now, tb, fails) ==
    FindRider(StampFolder(c, actor, now, fails), actor, tb, fails)

\* status_changed_to_<target>: compared in lower case.
ChangedTo(target, old, req) ==
    Truthy(req.status) /\ Lower(req.status) = target /\ Lower(old.status) # target

WashedBranch(c, old, req, actor, now, fails) ==
    IF ChangedTo("washed", old, req) THEN OnWashed(c, actor, now, fails) ELSE c

ReadyBranch(c, old, req, actor, now, tb, fails) ==
    IF ChangedTo("ready", old, req) THEN OnReady(c, actor, now, tb, fails) ELSE c

\* The delivered SMS and the response; skipped when an exception has already
\* ended the handler.
DeliveredBranch(c, old, req, fails) ==
    IF c.resp = 500 THEN c
    ELSE IF ChangedTo("delivered", old, req)
         THEN [CustomerSms(c, "delivered", fails) EXCEPT !.resp = 200]
         ELSE [c EXCEPT !.resp = 200]

\* OrderUpdateView.patch past the permission check; `order` is the row read.
PatchOrder(id, order, actor, req, now, tb, fails) ==
    DeliveredBranch(
      ReadyBranch(
        WashedBranch(
          DetailsEvent(
            StatusEvent(
              ApplyDeliveredAt(ApplyFields(Ctx(id, order), req, fails), req, fails),
              order, req, actor),
            order, req, actor),
          order, req, actor, now, fails),
        order, req, actor, now, tb, fails),
      order, req, fails)

\* --------------------------------------------------- location resolution
Min(S) == CHOOSE x \in S : \A y \in S : x <= y

\* .first() of the Location rows at the given positions of the default
\* ordering (Meta.ordering = ['name']), NONE when there are none.
FirstLocation(hits) == IF hits = {} THEN NONE ELSE Locations[Min(hits)]

\* filter(name__icontains=user.location.lower().strip(), is_active=True).first()
LocationByUserText(u) ==
    FirstLocation({i \in 1..Len(Locations) :
        /\ Locations[i] \in active_locations
        /\ IsSubstring(Lower(Strip(Lower(User[u].location))), Lower(Locations[i]))})

LocationByPickupReversed(address) ==
    FirstLocation({i \in 1..Len(Locations) :
        /\ Locations[i] \in active_locations
        /\ IsSubstring(Lower(address), Lower(Locations[i]))})

\* The first active location whose lower-cased name occurs in the address.
LocationByPickup(address) ==
    FirstLocation({i \in 1..Len(Locations) :
        /\ Locations[i] \in active_locations
        /\ IsSubstring(Lower(Locations[i]), Lower(address))})

\* Location.objects.filter(is_active=True).first()
FirstActiveLocation ==
    FirstLocation({i \in 1..Len(Locations) : Locations[i] \in active_locations})

\* Python `a or b` on locations.
OrElse(a, b) == IF a # NONE THEN a ELSE b

\* OrderCreateSerializer.create: the service_location of the new row. `user`
\* is the request's user, or the guest account for an anonymous request.
SerializerLocation(req, user, created_by) ==
    IF req.service_location # NONE THEN req.service_location
    ELSE IF /\ req.order_type = "manual" /\ created_by # NONE
            /\ User[created_by].service_location # NONE
         THEN User[created_by].service_location
    ELSE IF User[user].service_location # NONE THEN User[user].service_location
    ELSE IF Truthy(User[user].location) THEN LocationByUserText(user)
    ELSE LocationByPickup(req.pickup_address)

\* The chain of the post_save hook and of the assign_pending_orders command:
\* own location, user's text, pickup address, first active location.
ResolveLocation(order) ==
    IF order.service_location # NONE THEN order.service_location
    ELSE OrElse(OrElse(IF order.user # NONE /\ Truthy(User[order.user].location)
                       THEN LocationByUserText(order.user) ELSE NONE,
                       LocationByPickup(order.pickup_address)),
                FirstActiveLocation)

\* The riders the hook and the command choose from: those of the location,
\* else every active rider.
RiderPool(loc) == IF ActiveRidersAt(loc) # {} THEN ActiveRidersAt(loc) ELSE ActiveRiders

\* ---------------------------------------------------------- order creation
\* settings.ADMIN_PHONE_NUMBER
AdminPhone == "ADMIN_PHONE_NUMBER"

\* format_phone_number on the customer phones of the model.
FormatPhone(p) ==
    CASE p = "0711000000" -> "+254711000000"
      [] OTHER -> p

\* f"WW-{uuid.uuid4().hex[:6].upper()}": the values Order.save may draw for
\* a row inserted without code.
UuidCodes == {"WW-3F9A1C", "WW-B07E52"}

\* f"WW-{order.id:05d}"
IdCode(id) == CASE id = 1 -> "WW-00001" [] id = 2 -> "WW-00002" [] OTHER -> "WW-00003"

\* Order.objects.create(**validated_data): the columns the workflow reads;
\* `code` is the code Order.save gives the row, validated_data having none.
\* washed_at and folded_at hold the clock of the stamping request, 0 for NULL.
NewOrder(req, user, created_by, loc, status, code) ==
    [user |-> user, code |-> code, order_type |-> req.order_type, status |-> status,
     service_location |-> loc, rider |-> NONE,
     washer |-> NONE, washed_at |-> 0, folder |-> NONE, folded_at |-> 0,
     delivered_at |-> NONE, quantity |-> NONE, weight_kg |-> NONE,
     description |-> NONE, actual_price |-> NONE,
     pickup_address |-> req.pickup_address, dropoff_address |-> req.dropoff_address,
     customer_phone |-> req.customer_phone, created_by |-> created_by]

\* post_save for the insert: the customer's notification.
TellCreated(c, fails) ==
    IF c.order.user # NONE /\ "notif_customer" \notin fails
    THEN [c EXCEPT !.nt = Append(@, Notif(c.order.user, c.id, c.order.code, "new_order", "created"))]
    ELSE c

\* post_save for the insert: the SMS to the admin number.
AdminSms(c, fails) ==
    IF "sms" \notin fails
    THEN [c EXCEPT !.sm = Append(@, Sms(AdminPhone, c.id, "new_order"))]
    ELSE c

\* post_save for the insert: the rider taken from the pool of `loc`, saved
\* with update_fields rider, status, service_location; then the rider's
\* notification, a failure swallowed by the hook's try block.
AssignFromPool(c, loc, tb, fails) ==
    [Written(c, "order_row") EXCEPT !.order.rider = First(RiderPool(loc), tb),
              !.order.service_location = loc,
              !.order.status = "pending_assignment",
              !.nt = IF "notif_rider" \in fails THEN @
                     ELSE Append(@, Notif(First(RiderPool(loc), tb), c.id, c.order.code, "new_order",
                            IF ActiveRidersAt(loc) # {} THEN "assigned"
                            ELSE "assigned_alternate"))]

\* post_save for the insert: auto-assignment of a manual order without rider.
AutoAssign(c, tb, fails) ==
    IF /\ c.order.rider = NONE /\ c.order.order_type = "manual"
       /\ ResolveLocation(c.order) # NONE
       /\ RiderPool(ResolveLocation(c.order)) # {}
    THEN AssignFromPool(c, ResolveLocation(c.order), tb, fails)
    ELSE c

\* order_status_update for the insert (created = True).
OnCreate(c, tb, fails) == AutoAssign(AdminSms(TellCreated(c, fails), fails), tb, fails)

\* created_by_user of the serializer; actor "anon" is an anonymous request.
CreatedBy(req, actor) ==
    IF req.order_type = "manual" /\ actor # "anon" THEN actor ELSE NONE

\* `user` of the serializer: the request's user, else the guest account.
RequestUser(actor) == IF actor # "anon" THEN actor ELSE "guest_orders"

\* validated_data['user']; `given` is the user the view passes to save(),
\* NONE when it passes none.
Owner(req, actor, given) ==
    IF given # NONE THEN given
    ELSE IF CreatedBy(req, actor) # NONE THEN "guest_orders"
    ELSE RequestUser(actor)

\* Order.status default, or pending_assignment for a manual order.
InitialStatus(req) ==
    IF req.order_type = "manual" THEN "pending_assignment" ELSE "requested"

\* order.save(update_fields=['service']) when the request lists its services.
SaveService(c, req, fails) ==
    IF req.services = "services" THEN OnSave(c, fails) ELSE c

\* order.code = f"WW-{order.id:05d}"; order.save(update_fields=["code"]): the
\* hook returns at once for this save.
SaveCode(c) == [Written(c, "order_row") EXCEPT !.order.code = IdCode(c.id)]

\* OrderCreateSerializer.create
SerializerCreate(id, req, actor, given, uuid, tb, fails) ==
    SaveCode(SaveService(
        OnCreate(Ctx(id, NewOrder(req, Owner(req, actor, given), CreatedBy(req, actor),
                                  SerializerLocation(req, RequestUser(actor), CreatedBy(req, actor)),
                                  InitialStatus(req), uuid)),
                 tb, fails),
        req, fails))

\* Notification rows inserted one after another inside one try block: the
\* first insert that fails ends the block.
RECURSIVE InsertUntilFailure(_, _, _)
InsertUntilFailure(c, rows, fails) ==
    IF rows = <<>> \/ Head(rows).kind \in fails THEN c
    ELSE InsertUntilFailure([c EXCEPT !.nt = Append(@, Head(rows).row)], Tail(rows), fails)

\* User.objects.filter(is_superuser=True, is_active=True)
Admins == {u \in UserNames : User[u].is_superuser /\ User[u].is_active}

RECURSIVE AdminRows(_, _, _)
\* One notification per admin of `us`, in the queryset's order.
AdminRows(us, c, msg) ==
    IF us = {} THEN <<>>
    ELSE LET u == CHOOSE x \in us : TRUE IN
         <<[kind |-> "notif_admin", row |-> Notif(u, c.id, c.order.code, "new_order", msg)]>>
            \o AdminRows(us \ {u}, c, msg)

\* The customer's notification of a creation view.
CustomerRow(c, msg) ==
    IF c.order.user # NONE
    THEN <<[kind |-> "notif_customer", row |-> Notif(c.order.user, c.id, c.order.code, "new_order", msg)]>>
    ELSE <<>>

\* The rider's notification of perform_create.
RiderRow(c) ==
    IF c.order.rider # NONE
    THEN <<[kind |-> "notif_rider",
            row |-> Notif(c.order.rider, c.id, c.order.code, "order_assigned", "assigned_to_you")]>>
    ELSE <<>>

\* user_phone of the creation SMS: the user's phone, else customer_phone.
CustomerPhone(order) ==
    IF order.user # NONE /\ Truthy(User[order.user].phone) THEN User[order.user].phone
    ELSE order.customer_phone

\* The creation SMS to the customer, the admin number and (perform_create
\* only) the rider, each in its own try block.
CreationSms(c, withRider, fails) ==
    IF "sms" \in fails THEN c
    ELSE [c EXCEPT !.sm =
            @ \o (IF Truthy(CustomerPhone(c.order))
                  THEN <<Sms(FormatPhone(CustomerPhone(c.order)), c.id, "confirmed")>>
                  ELSE <<>>)
              \o <<Sms(AdminPhone, c.id, "alert")>>
              \o (IF withRider /\ c.order.rider # NONE /\ Truthy(User[c.order.rider].phone)
                  THEN <<Sms(User[c.order.rider].phone, c.id, "assigned")>>
                  ELSE <<>>)]

\* perform_create: the rider of the order's own location when it has none.
\* (The inference chain for an order without service_location reads the name
\* Location, which the import further down makes local to the function: the
\* read raises, the try block swallows it, and nothing is assigned.)
AssignLocal(c, tb) ==
    IF /\ c.order.rider = NONE /\ c.order.service_location # NONE
       /\ ActiveRidersAt(c.order.service_location) # {}
    THEN [Written(c, "order_row") EXCEPT
                !.order.rider = First(ActiveRidersAt(c.order.service_location), tb),
                !.order.status = IF @ = "pending_assignment" THEN "requested" ELSE @]
    ELSE c

\* perform_create: the notifications of customer, admins and rider.
CreationNotifs(c, fails) ==
    InsertUntilFailure(c, CustomerRow(c, "placed") \o AdminRows(Admins, c, "new_online_order")
                              \o RiderRow(c), fails)

\* OrderListCreateView.perform_create after serializer.save().
PerformCreate(c, tb, fails) ==
    CreationSms(CreationNotifs(AssignLocal(c, tb), fails), TRUE, fails)

\* StaffCreateOrderView.post after serializer.save().
StaffNotify(c, fails) ==
    CreationSms(
        InsertUntilFailure(c, CustomerRow(c, "created_by_staff")
                                \o AdminRows(Admins, c, "manual_order"), fails),
        FALSE, fails)

\* assign_pending_orders on one order: rider from the pool of `loc`, status
\* forced to in_progress, order.save(), then the rider's notification (a
\* failure is caught per order).
AssignAt(c, loc, tb, fails) ==
    IF loc = NONE \/ RiderPool(loc) = {} THEN c
    ELSE [OnSave([c EXCEPT !.order.rider = First(RiderPool(loc), tb),
                           !.order.service_location = loc,
                           !.order.status = "in_progress"], fails)
            EXCEPT !.nt = IF "notif_rider" \in fails THEN @
                          ELSE Append(@, Notif(First(RiderPool(loc), tb), c.id, c.order.code,
                                               "new_order", "assigned"))]

\* assign_pending_orders on the order `id` of the table.
AssignPendingOrder(id, order, tb, fails) ==
    IF order.rider # NONE THEN Ctx(id, order)
    ELSE AssignAt(Ctx(id, order), ResolveLocation(order), tb, fails)

\* ------------------------------------------------------------------ state
\* The request served last: what it was, its response, and the kinds of rows
\* it wrote after its first notification or SMS.
Served(op, id, actor, resp, late) ==
    [op |-> op, id |-> id, actor |-> actor, resp |-> resp, late |-> late]

InitWith(locations, jobs, riders) ==
    /\ orders = <<>>
    /\ active_riders = riders
    /\ inflight = {}
    /\ events = <<>>
    /\ notifications = <<>>
    /\ sms = <<>>
    /\ active_locations = locations
    /\ completed_jobs = jobs
    /\ ever_delivered = {}
    /\ calls = 0
    /\ last = Served("none", 0, NONE, 0, {})

\* A fresh deployment: every location active (is_active defaults to True),
\* every rider profile at the default completed_jobs = 0.
Init == InitWith(LocationNames, [r \in Riders |-> 0], {r \in Riders : User[r].is_active})

\* A deployment whose locations and rider profiles were edited by hand.
InitPool ==
    \E locations \in SUBSET LocationNames, jobs \in [Riders -> 0..MaxJobs] :
        InitWith(locations, jobs, {r \in Riders : User[r].is_active})

\* A deployment none of whose rider accounts is active yet.
InitRetry == InitWith(LocationNames, [r \in Riders |-> 0], {})

\* The rows a request inserted, and its response.
Commit(op, actor, c) ==
    /\ notifications' = c.nt
    /\ sms' = c.sm
    /\ calls' = calls + 1
    /\ last' = Served(op, c.id, actor, c.resp, c.late)
    /\ UNCHANGED <<active_locations, completed_jobs, active_riders>>

\* A request turned away before it touched the database.
Rejected(op, id, actor, resp) ==
    /\ notifications' = <<>>
    /\ sms' = <<>>
    /\ calls' = calls + 1
    /\ last' = Served(op, id, actor, resp, {})
    /\ UNCHANGED <<orders, events, ever_delivered, active_locations, completed_jobs,
                   active_riders>>

\* A creation request written back: the new row and its (empty) audit trail.
StoreNew(op, actor, c) ==
    /\ orders' = Append(orders, c.order)
    /\ events' = Append(events, c.ev)
    /\ UNCHANGED ever_delivered
    /\ Commit(op, actor, c)

BecameDelivered(before, after) ==
    after.status = "delivered" /\ before.status # "delivered"

\* A request on an existing order written back.
StoreUpdate(op, actor, c) ==
    /\ orders' = [orders EXCEPT ![c.id] = c.order]
    /\ events' = [events EXCEPT ![c.id] = @ \o c.ev]
    /\ ever_delivered' = IF BecameDelivered(orders[c.id], c.order)
                         THEN ever_delivered \cup {c.id} ELSE ever_delivered
    /\ Commit(op, actor, c)

\* POST /orders/ (OrderListCreateView): permission, serializer, perform_create.
Create(req, actor, uuid, tb, fails) ==
    /\ UNCHANGED inflight
    /\ calls < MaxCalls /\ Len(orders) < MaxOrders
    /\ req.service_location \in active_locations \cup {NONE}
    /\ IF actor # "anon" /\ ~HasPermission(actor)
       THEN Rejected("create", 0, actor, 403)
       ELSE StoreNew("create", actor,
                [PerformCreate(
                    SerializerCreate(Len(orders) + 1, req, actor,
                                     IF actor # "anon" THEN actor ELSE NONE,
                                     uuid, tb, fails),
                    tb, fails) EXCEPT !.resp = 201])

\* Order.objects.create(user=..., service_location=..., status='requested')
\* outside any view: the insert and its post_save hook.
PersistOrder(req, user, uuid, tb, fails) ==
    /\ UNCHANGED inflight
    /\ calls < MaxCalls /\ Len(orders) < MaxOrders
    /\ req.service_location \in active_locations
    /\ StoreNew("persist", NONE,
                OnCreate(Ctx(Len(orders) + 1,
                             NewOrder(req, user, NONE, req.service_location, "requested", uuid)),
                         tb, fails))

\* POST /orders/create/ (StaffCreateOrderView).
StaffCreate(req, actor, uuid, tb, fails) ==
    /\ UNCHANGED inflight
    /\ calls < MaxCalls /\ Len(orders) < MaxOrders
    /\ actor # "anon"
    /\ req.service_location \in active_locations \cup {NONE}
    /\ IF ~(User[actor].is_staff \/ User[actor].is_superuser)
       THEN Rejected("staff_create", 0, actor, 403)
       ELSE StoreNew("staff_create", actor,
                [StaffNotify(SerializerCreate(Len(orders) + 1, req, actor, NONE, uuid, tb, fails),
                             fails) EXCEPT !.resp = 201])

\* PATCH /orders/update/?id= (OrderUpdateView.patch).
Patch(id, actor, req, tb, fails) ==
    /\ UNCHANGED inflight
    /\ calls < MaxCalls
    /\ id \in 1..Len(orders)
    /\ IF ~HasPermission(actor) \/ LocationDenied(actor, orders[id])
       THEN Rejected("patch", id, actor, 403)
       ELSE StoreUpdate("patch", actor,
                PatchOrder(id, orders[id], actor, req, calls + 1, tb, fails))

\* POST /orders/rider/ (RiderOrderListView.post) with action accept.
Accept(id, actor, fails) ==
    /\ UNCHANGED inflight
    /\ calls < MaxCalls
    /\ id \in 1..Len(orders)
    /\ IF orders[id].rider = NONE /\ Lower(orders[id].status) = "requested"
       THEN StoreUpdate("accept", actor,
                OnSave([Ctx(id, orders[id]) EXCEPT !.order.rider = actor,
                                                   !.order.status = "in_progress",
                                                   !.resp = 200], fails))
       ELSE Rejected("accept", id, actor, 404)

\* The admin actions: queryset.update(field=value) on the selected rows (no
\* save(), so no post_save hook and no audit event).
AdminUpdate(op, ids, field, value) ==
    /\ UNCHANGED inflight
    /\ calls < MaxCalls
    /\ ids # {} /\ ids \subseteq 1..Len(orders)
    /\ orders' = [i \in 1..Len(orders) |->
                    IF i \in ids THEN [orders[i] EXCEPT ![field] = value] ELSE orders[i]]
    /\ ever_delivered' = ever_delivered \cup
           {i \in ids : field = "status" /\ value = "delivered"
                        /\ orders[i].status # "delivered"}
    /\ notifications' = <<>>
    /\ sms' = <<>>
    /\ calls' = calls + 1
    /\ last' = Served(op, 0, "admin", 200, {})
    /\ UNCHANGED <<events, active_locations, completed_jobs, active_riders>>

\* The admin's user form: is_active of a rider account saved as `value`.
SetRiderActive(r, value) ==
    /\ UNCHANGED inflight
    /\ calls < MaxCalls
    /\ (r \in active_riders) # value
    /\ active_riders' = IF value THEN active_riders \cup {r} ELSE active_riders \ {r}
    /\ notifications' = <<>>
    /\ sms' = <<>>
    /\ calls' = calls + 1
    /\ last' = Served("set_rider_active", 0, "admin", 200, {})
    /\ UNCHANGED <<orders, events, ever_delivered, active_locations, completed_jobs>>

MakeReady(ids) == AdminUpdate("make_ready", ids, "status", "ready")

MakeDelivered(ids) == AdminUpdate("make_delivered", ids, "status", "delivered")

UnassignRider(ids) == AdminUpdate("unassign_rider", ids, "rider", NONE)

RECURSIVE Inserted(_, _, _, _)
\* The rows the command inserts for orders id..Len(orders), in order.
Inserted(id, tb, fails, box) ==
    IF id > Len(orders) THEN <<>>
    ELSE AssignPendingOrder(id, orders[id], tb, fails)[box] \o Inserted(id + 1, tb, fails, box)

\* manage.py assign_pending_orders
AssignPending(tb, fails) ==
    /\ UNCHANGED inflight
    /\ calls < MaxCalls
    /\ \E i \in 1..Len(orders) : orders[i].rider = NONE
    /\ orders' = [i \in 1..Len(orders) |-> AssignPendingOrder(i, orders[i], tb, fails).order]
    /\ notifications' = Inserted(1, tb, fails, "nt")
    /\ sms' = Inserted(1, tb, fails, "sm")
    /\ calls' = calls + 1
    /\ last' = Served("assign_pending", 0, "admin", 200,
                     UNION {AssignPendingOrder(i, orders[i], tb, fails).late :
                               i \in 1..Len(orders)})
    /\ UNCHANGED <<events, ever_delivered, active_locations, completed_jobs,
                   active_riders>>

\* ------------------------------------------------------------- requests
CreateRequest(type, pickup, dropoff, loc, services, phone) ==
    [order_type |-> type, pickup_address |-> pickup, dropoff_address |-> dropoff,
     service_location |-> loc, services |-> services, customer_phone |-> phone]

\* Online orders name their services; manual orders give the customer's phone
\* and, until a delivery address is known, the placeholder address.
CreateRequests ==
    {CreateRequest("online", "Juja Road 12", "Juja Road 12", NONE, "services", NONE),
     CreateRequest("online", "Thika Town", "Thika Town", NONE, "service", NONE),
     CreateRequest("manual", "Juja Road 12", "To be assigned", NONE, NONE, "0711000000"),
     CreateRequest("manual", "Juja Road 12", "Juja Road 12", NONE, NONE, "0711000000")}

PatchRequest(status, quantity, weight, description, price, delivered) ==
    [status |-> status, quantity |-> quantity, weight_kg |-> weight,
     description |-> description, actual_price |-> price, delivered_at |-> delivered]

StatusInputs == {NONE, "in_progress", "washed", "ready", "Ready", "delivered"}

\* Status transitions, with or without the rider's delivery time.
FlowRequests ==
    {PatchRequest(st, NONE, NONE, NONE, NONE, NONE) : st \in StatusInputs}
        \cup {PatchRequest(st, NONE, NONE, NONE, NONE, "2024-05-01T10:00:00+00:00") :
                st \in {NONE, "delivered"}}

CreateActors == {"anon", "cust", "staffJ", "staffN"}

PatchActors == {"admin", "staffJ", "staffW", "staffN", "washJ", "foldJ"}

\* ------------------------------------------------------------ the workflow
CreateStep == \E req \in CreateRequests, actor \in CreateActors, uuid \in UuidCodes,
                 tb \in TieBreaks :
                  Create(req, actor, uuid, tb, {})

StaffCreateStep == \E req \in CreateRequests, actor \in {"staffJ", "cust"},
                      uuid \in UuidCodes, tb \in TieBreaks :
                       StaffCreate(req, actor, uuid, tb, {})

PatchStep == \E id \in 1..MaxOrders, actor \in PatchActors, req \in FlowRequests,
                tb \in TieBreaks : Patch(id, actor, req, tb, {})

AcceptStep == \E id \in 1..MaxOrders, actor \in {"r1", "r3"} : Accept(id, actor, {})

MakeReadyStep == \E ids \in SUBSET (1..MaxOrders) : MakeReady(ids)

MakeDeliveredStep == \E ids \in SUBSET (1..MaxOrders) : MakeDelivered(ids)

UnassignRiderStep == \E ids \in SUBSET (1..MaxOrders) : UnassignRider(ids)

AssignPendingStep == \E tb \in TieBreaks : AssignPending(tb, {})

Next ==
    \/ CreateStep
    \/ StaffCreateStep
    \/ PatchStep
    \/ AcceptStep
    \/ MakeReadyStep
    \/ MakeDeliveredStep
    \/ UnassignRiderStep
    \/ AssignPendingStep

Spec == Init /\ [][Next]_vars

\* ------------------------------------------------ detail updates in depth
\* Number of requests in a run of the detail-update specification.
MaxDetailCalls == 3

\* Request values as JSON carries them: quantity a number, weight_kg a
\* float, actual_price a number or a string, delivered_at a string.
DetailRequests ==
    {PatchRequest(st, q, w, d, p, at) :
        st \in {"requested", "in_progress"}, q \in {NONE, "5"}, w \in {NONE, "2.5", "2.3"},
        d \in {NONE, "shirts"}, p \in {NONE, "100", "100.00"},
        at \in {NONE, "2024-05-01T10:00:00+00:00", "soon"}}

DetailCreateStep ==
    /\ calls < MaxDetailCalls
    /\ \E uuid \in UuidCodes, tb \in TieBreaks :
          Create(CreateRequest("online", "Juja Road 12", "Juja Road 12", NONE, "services", NONE),
                 "cust", uuid, tb, {})

DetailPatchStep ==
    /\ calls < MaxDetailCalls
    /\ \E id \in 1..MaxOrders, actor \in {"admin", "staffW"}, req \in DetailRequests :
          Patch(id, actor, req, "pk_asc", {})

NextDetails == DetailCreateStep \/ DetailPatchStep

SpecDetails == Init /\ [][NextDetails]_vars

\* --------------------------------------------------- assignment in depth
PoolCreateStep ==
    \E req \in CreateRequests, actor \in {"anon", "cust", "staffK"},
       uuid \in UuidCodes, tb \in TieBreaks :
        Create(req, actor, uuid, tb, {})

PoolStaffCreateStep ==
    \E req \in CreateRequests, actor \in {"staffJ", "staffK"},
       uuid \in UuidCodes, tb \in TieBreaks :
        StaffCreate(req, actor, uuid, tb, {})

\* The orders the assignment scripts insert: a customer's order at an active
\* location, of the default type or manual.
PoolPersistStep ==
    \E type \in {"online", "manual"}, loc \in LocationNames,
       uuid \in UuidCodes, tb \in TieBreaks :
        PersistOrder(CreateRequest(type, "Test Pickup Address", "Test Dropoff Address",
                                   loc, NONE, NONE),
                     "cust", uuid, tb, {})

PoolReadyStep ==
    \E id \in 1..MaxOrders, tb \in TieBreaks :
        Patch(id, "admin", PatchRequest("ready", NONE, NONE, NONE, NONE, NONE), tb, {})

NextAssign ==
    \/ PoolCreateStep
    \/ PoolStaffCreateStep
    \/ PoolPersistStep
    \/ PoolReadyStep
    \/ UnassignRiderStep
    \/ AssignPendingStep

SpecAssign == InitPool /\ [][NextAssign]_vars

\* ------------------------------------------------ riders arriving later
\* Orders are placed while no rider account is active; rider accounts are
\* activated and deactivated by the admin; orders are moved to ready.
RetryCreateStep ==
    /\ active_riders = {}
    /\ \E req \in CreateRequests, actor \in {"cust", "staffJ"}, uuid \in UuidCodes :
          Create(req, actor, uuid, "pk_asc", {})

RetryRiderStep ==
    \E r \in {"r1", "r2", "r3"}, value \in BOOLEAN : SetRiderActive(r, value)

RetryReadyStep ==
    \E id \in 1..MaxOrders, actor \in {"admin", "staffJ"}, tb \in TieBreaks :
        Patch(id, actor, PatchRequest("ready", NONE, NONE, NONE, NONE, NONE), tb, {})

NextRetry == RetryCreateStep \/ RetryRiderStep \/ RetryReadyStep

SpecRetry == InitRetry /\ [][NextRetry]_vars

\* ------------------------------------------- requests served in parallel
\* Requests in flight at once.
MaxInflight == 2

\* OrderUpdateView.patch up to Order.objects.get(id=order_id) and the location
\* check: the request holds its own copy of the row from here on.
ReadForPatch(id, actor, req) ==
    /\ calls < MaxCalls /\ Cardinality(inflight) < MaxInflight
    /\ id \in 1..Len(orders)
    /\ IF ~HasPermission(actor) \/ LocationDenied(actor, orders[id])
       THEN Rejected("patch", id, actor, 403) /\ UNCHANGED inflight
       ELSE /\ inflight' = inflight \cup
                    {[op |-> "patch", id |-> id, actor |-> actor, req |-> req,
                      order |-> orders[id]]}
            /\ UNCHANGED <<orders, events, notifications, sms, active_locations,
                           completed_jobs, active_riders, ever_delivered, calls, last>>

\* RiderOrderListView.post up to Order.objects.get(id=..., rider__isnull=True,
\* status__iexact='requested').
ReadForAccept(id, actor) ==
    /\ calls < MaxCalls /\ Cardinality(inflight) < MaxInflight
    /\ id \in 1..Len(orders)
    /\ IF orders[id].rider = NONE /\ Lower(orders[id].status) = "requested"
       THEN /\ inflight' = inflight \cup
                    {[op |-> "accept", id |-> id, actor |-> actor,
                      req |-> PatchRequest(NONE, NONE, NONE, NONE, NONE, NONE),
                      order |-> orders[id]]}
            /\ UNCHANGED <<orders, events, notifications, sms, active_locations,
                           completed_jobs, active_riders, ever_delivered, calls, last>>
       ELSE Rejected("accept", id, actor, 404) /\ UNCHANGED inflight

\* The rest of a handler that holds a copy of the row: order.save() writes
\* every column of the copy.
SaveCopy(f, tb) ==
    /\ calls < MaxCalls
    /\ f \in inflight
    /\ inflight' = inflight \ {f}
    /\ IF f.op = "patch"
       THEN StoreUpdate("patch", f.actor,
                PatchOrder(f.id, f.order, f.actor, f.req, calls + 1, tb, {}))
       ELSE StoreUpdate("accept", f.actor,
                OnSave([Ctx(f.id, f.order) EXCEPT !.order.rider = f.actor,
                                                  !.order.status = "in_progress",
                                                  !.resp = 200], {}))

RaceCreateStep ==
    \E req \in {r \in CreateRequests : r.order_type = "online"}, uuid \in UuidCodes :
        Create(req, "cust", uuid, "pk_asc", {})

\* Transition requests of the admin: a status, or a quantity.
RaceRequests ==
    {PatchRequest("washed", NONE, NONE, NONE, NONE, NONE),
     PatchRequest("ready", NONE, NONE, NONE, NONE, NONE),
     PatchRequest(NONE, "5", NONE, NONE, NONE, NONE)}

RaceReadPatchStep ==
    \E id \in 1..MaxOrders, req \in RaceRequests : ReadForPatch(id, "admin", req)

RaceReadAcceptStep ==
    \E id \in 1..MaxOrders, actor \in {"r1", "r2"} : ReadForAccept(id, actor)

RaceSaveStep == \E f \in inflight, tb \in TieBreaks : SaveCopy(f, tb)

NextRace == RaceCreateStep \/ RaceReadPatchStep \/ RaceReadAcceptStep \/ RaceSaveStep

SpecRace == Init /\ [][NextRace]_vars

\* ------------------------------------------------- failing notifications
\* One kind of downstream call failing during a request, or none.
FailSets == {{}} \cup {{f} : f \in FailPoints}

FailCreateStep ==
    \E req \in CreateRequests, actor \in {"cust", "staffJ"},
       uuid \in UuidCodes, fails \in FailSets :
        Create(req, actor, uuid, "pk_asc", fails)

FailPatchStep ==
    \E id \in 1..MaxOrders, actor \in {"admin", "foldJ", "foldW"},
       st \in {"washed", "ready", "delivered"}, fails \in FailSets :
        Patch(id, actor, PatchRequest(st, NONE, NONE, NONE, NONE, NONE), "pk_asc", fails)

NextFail == FailCreateStep \/ FailPatchStep

SpecFail == Init /\ [][NextFail]_vars

\* ------------------------------------------------------------- properties
\* The step is a transition call on order `id` (answered or turned away).
PatchCall(id) == last'.op = "patch" /\ last'.id = id /\ calls' = calls + 1

\* The audit events the step appended to the trail of order `id`.
Appended(id) == SubSeq(events'[id], Len(events[id]) + 1, Len(events'[id]))

OfType(evs, type) == SelectSeq(evs, LAMBDA e : e.event_type = type)

\* The detail fields whose stored value the step changed on order `id`.
StoredChanges(id) == {f \in DetailFields : orders'[id][f] # orders[id][f]}

\* C1: every transition call that changes the stored status of an order
\* appends exactly one status_changed event to that order's trail, its old
\* the status stored before the call and its new the status stored after it.
C1_StatusChangedOnce ==
    [][\A id \in 1..Len(orders) :
          (PatchCall(id) /\ orders'[id].status # orders[id].status)
          => /\ Len(OfType(Appended(id), "status_changed")) = 1
             /\ OfType(Appended(id), "status_changed")[1].data =
                    [old |-> orders[id].status, new |-> orders'[id].status]]_vars

\* C1 witness: a transition call has just changed a status and its event,
\* old differing from new, is in the trail.
C1_Witness ==
    /\ last.op = "patch" /\ last.resp = 200
    /\ \E i \in 1..Len(events[last.id]) :
          /\ events[last.id][i].event_type = "status_changed"
          /\ events[last.id][i].actor = last.actor
          /\ events[last.id][i].data.new = orders[last.id].status
          /\ events[last.id][i].data.old # orders[last.id].status

\* C2: every transition call that changes the stored value of at least one
\* detail field appends exactly one details_updated event, and the fields of
\* that event are exactly the fields whose stored value changed.
C2_DetailsExact ==
    [][\A id \in 1..Len(orders) :
          (PatchCall(id) /\ StoredChanges(id) # {})
          => /\ Len(OfType(Appended(id), "details_updated")) = 1
             /\ DOMAIN OfType(Appended(id), "details_updated")[1].data
                    = StoredChanges(id)]_vars

\* C3: a transition call that leaves the status as it was and changes no
\* detail field appends no event and leaves the rider as it was.
C3_Idempotent ==
    [][\A id \in 1..Len(orders) :
          (/\ PatchCall(id) /\ last'.resp = 200
           /\ orders'[id].status = orders[id].status
           /\ StoredChanges(id) = {})
          => /\ events'[id] = events[id]
             /\ orders'[id].rider = orders[id].rider]_vars

\* C4: in every state, an order has delivered_at set if and only if it has
\* at some point transitioned into status delivered.
C4_DeliveredAtIffDelivered ==
    \A id \in 1..Len(orders) :
        orders[id].delivered_at # NONE <=> id \in ever_delivered

\* The riders a selection for location `loc` ranges over: the active riders
\* of the location, or every active rider when the location has none.
Candidates(loc) ==
    IF \E r \in Riders : User[r].is_active /\ User[r].service_location = loc
    THEN {r \in Riders : User[r].is_active /\ User[r].service_location = loc}
    ELSE {r \in Riders : User[r].is_active}

IsSentinel(address) ==
    address \in {NONE, ""} \/ Lower(address) = "to be assigned" \/ Strip(address) = ""

\* C6: a transition call that leaves a manual order with the sentinel
\* dropoff_address in status ready neither sets nor changes the order's rider
\* and appends no assigned_rider event.
C6_ManualGate ==
    [][\A id \in 1..Len(orders) :
          (/\ PatchCall(id)
           /\ orders[id].order_type = "manual" /\ IsSentinel(orders[id].dropoff_address)
           /\ Lower(orders'[id].status) = "ready")
          => /\ orders'[id].rider = orders[id].rider
             /\ OfType(Appended(id), "assigned_rider") = <<>>]_vars

\* C6 witness: a transition call has just moved a riderless manual order with
\* the sentinel address to ready.
C6_Witness ==
    /\ last.op = "patch" /\ last.resp = 200
    /\ orders[last.id].order_type = "manual"
    /\ orders[last.id].dropoff_address = "To be assigned"
    /\ orders[last.id].status = "ready"
    /\ orders[last.id].rider = NONE
    /\ \E i \in 1..Len(events[last.id]) :
          /\ events[last.id][i].event_type = "status_changed"
          /\ events[last.id][i].data.new = "ready"

\* C7: once a worker slot (rider, washer, folder) of an order holds a worker,
\* no step other than the explicit unassignment changes it.
C7_SlotsKept ==
    [][\A id \in 1..Len(orders) : \A slot \in {"rider", "washer", "folder"} :
          orders[id][slot] # NONE
          => \/ orders'[id][slot] = orders[id][slot]
             \/ last'.op = "unassign_rider"]_vars

\* C8: a transition call by a non-superuser staff actor whose service
\* location is unset or differs from the order's is answered 403 and leaves
\* orders, audit trail and notifications as they were; a call by a superuser
\* is never answered 403.
C8_LocationScope ==
    [][\A id \in 1..Len(orders) :
          PatchCall(id)
          => /\ (/\ User[last'.actor].is_staff /\ ~User[last'.actor].is_superuser
                 /\ \/ User[last'.actor].service_location = NONE
                    \/ User[last'.actor].service_location # orders[id].service_location)
                => /\ last'.resp = 403
                   /\ orders' = orders /\ events' = events /\ notifications' = <<>>
             /\ User[last'.actor].is_superuser => last'.resp # 403]_vars

\* C8 witness: staff of Westlands was just turned away from an order of
\* another location.
C8_Witness ==
    /\ last.op = "patch" /\ last.actor = "staffW" /\ last.resp = 403
    /\ orders[last.id].service_location = "Juja"

\* C9: no transition call is answered with an error because a notification
\* or an SMS failed: every call by an authorised actor is answered 200.
C9_FailuresSwallowed == last.op = "patch" => last.resp = 200

StatusChanges(id) == OfType(events[id], "status_changed")

\* C10: when the status_changed events of an order are washed, ready,
\* delivered, in that order, then washed_at and delivered_at are set, and
\* folded_at is set when a folder performed the ready call.
C10_WashedReadyDelivered ==
    \A id \in 1..Len(orders) :
        (/\ Len(StatusChanges(id)) = 3
         /\ StatusChanges(id)[1].data.new = "washed"
         /\ StatusChanges(id)[2].data.new = "ready"
         /\ StatusChanges(id)[3].data.new = "delivered")
        => /\ orders[id].washed_at # 0
           /\ orders[id].delivered_at # NONE
           /\ User[StatusChanges(id)[2].actor].staff_type = "folder"
                 => orders[id].folded_at # 0

\* The step is a creation request that stored a new order.
Created == Len(orders') = Len(orders) + 1

\* The order a creation step stored.
NewRow == orders'[Len(orders')]

\* The active locations whose name occurs, in any letter case, in `address`.
NamedIn(address) ==
    {l \in active_locations : IsSubstring(Lower(l), Lower(address))}

HasActiveRider(loc) ==
    \E r \in Riders : User[r].is_active /\ User[r].service_location = loc

C12_NoActiveLocation ==
    (active_locations = {} /\ last.op \in {"create", "staff_create"} /\ last.resp # 403)
    => /\ last.resp = 201
       /\ orders[last.id].service_location = NONE
       /\ orders[last.id].rider = NONE

\* C13: while at least one location is active, every order a creation request
\* has just stored carries a service_location.
C13_LocationWheneverActive ==
    (active_locations # {} /\ last.op \in {"create", "staff_create"} /\ last.resp = 201)
    => orders[last.id].service_location # NONE

\* C14: a manual order that a creation request has just stored is in status
\* pending_assignment when it has no rider and in status requested when it
\* has one.
C14_ManualStatusAfterCreation ==
    (/\ last.op \in {"create", "staff_create"} /\ last.resp = 201
     /\ orders[last.id].order_type = "manual")
    => orders[last.id].status =
          IF orders[last.id].rider = NONE THEN "pending_assignment" ELSE "requested"

\* The codes the rows of order `id` inserted by the last request quote.
Announced(id) ==
    {notifications'[i].code : i \in {j \in 1..Len(notifications') :
                                        notifications'[j].order = id}}

\* C15: the code of an order is settled at creation: every notification of
\* the creating request quotes the code the order is stored with, no later
\* step changes the code of a stored order, and no two stored orders share a
\* code.
C15_CodeFixedAtCreation ==
    [][/\ Created => Announced(Len(orders')) \subseteq {NewRow.code}
       /\ \A i \in 1..Len(orders) : orders'[i].code = orders[i].code
       /\ \A i, j \in 1..Len(orders') :
             orders'[i].code = orders'[j].code => i = j]_vars

\* C16: an order inserted without rider at a location that has an active
\* rider leaves the post_save hook with a rider and with a notification row
\* for that rider and this order, whatever its order type.
C16_HookAssignsAnyType ==
    [][(/\ Created /\ last'.op = "persist"
        /\ ActiveRidersAt(NewRow.service_location) # {})
       => /\ NewRow.rider # NONE
          /\ \E i \in 1..Len(notifications') :
                /\ notifications'[i].user = NewRow.rider
                /\ notifications'[i].order = Len(orders')]_vars

\* C17: a transition request that was served wrote the order row and its
\* event rows before it sent its first notification or SMS.
C17_WritesBeforeDispatch ==
    (last.op = "patch" /\ last.resp = 200) => last.late = {}

\* The order `o`, at a location without an active rider while some rider is
\* active elsewhere, holds a least-busy active rider of the whole system.
FellBack(o) ==
    (/\ o.service_location # NONE
     /\ ~HasActiveRider(o.service_location)
     /\ \E r \in Riders : User[r].is_active)
    => /\ o.rider \in {r \in Riders : User[r].is_active}
       /\ \A q \in {r \in Riders : User[r].is_active} :
             completed_jobs[o.rider] <= completed_jobs[q]

\* C18: an order that a creation request stores, or that a transition call
\* moves to ready without rider (a manual order only once it has a delivery
\* address), at a location without active rider is given the least-busy
\* active rider of the whole system.
C18_SystemWideFallback ==
    [][/\ (Created /\ last'.op \in {"create", "staff_create"}) => FellBack(NewRow)
       /\ \A id \in 1..Len(orders) :
             (/\ PatchCall(id) /\ last'.resp = 200
              /\ Lower(orders'[id].status) = "ready" /\ Lower(orders[id].status) # "ready"
              /\ orders[id].rider = NONE
              /\ orders[id].order_type = "manual" => ~IsSentinel(orders[id].dropoff_address))
             => FellBack(orders'[id])]_vars

\* The trail `evs` holds an assigned_rider event naming `rider`.
NamesRider(evs, rider) ==
    \E i \in 1..Len(evs) :
        /\ evs[i].event_type = "assigned_rider"
        /\ evs[i].data.rider_username = rider

\* C19: a creation request that stores an order with a rider, and a
\* transition call that gives a riderless order a rider, leave an
\* assigned_rider event naming that rider in the order's trail.
C19_AssignmentLogged ==
    [][/\ (Created /\ last'.op \in {"create", "staff_create"} /\ NewRow.rider # NONE)
          => NamesRider(events'[Len(orders')], NewRow.rider)
       /\ \A id \in 1..Len(orders) :
             (PatchCall(id) /\ orders[id].rider = NONE /\ orders'[id].rider # NONE)
             => NamesRider(events'[id], orders'[id].rider)]_vars

\* C20: a transition call that moves an order to ready appends an
\* assigned_rider event only when the order had no rider before the call and
\* has one after it.
C20_EventOnlyForNewRider ==
    [][\A id \in 1..Len(orders) :
          (/\ PatchCall(id)
           /\ Lower(orders'[id].status) = "ready" /\ Lower(orders[id].status) # "ready"
           /\ OfType(Appended(id), "assigned_rider") # <<>>)
          => orders[id].rider = NONE /\ orders'[id].rider # NONE]_vars

\* The step moved order `id` from a status other than ready to ready by a
\* transition call that was served.
MovedToReady(id) ==
    /\ PatchCall(id) /\ last'.resp = 200
    /\ Lower(orders'[id].status) = "ready" /\ Lower(orders[id].status) # "ready"

\* C21: a transition call that moves an order to ready and leaves it with a
\* rider (for a manual order: one with a real delivery address) inserts a
\* 'ready for delivery' notification for that rider.
C21_RiderToldReady ==
    [][\A id \in 1..Len(orders) :
          (/\ MovedToReady(id)
           /\ orders'[id].rider # NONE
           /\ orders[id].order_type = "manual" => ~IsSentinel(orders[id].dropoff_address))
          => \E i \in 1..Len(notifications') :
                /\ notifications'[i].user = orders'[id].rider
                /\ notifications'[i].order = id
                /\ notifications'[i].message = "ready_for_delivery"]_vars

\* C22: an order left without rider at creation (none was eligible then) is
\* given a rider by the next transition call that moves it to ready while
\* the location that location resolution attributes to it has an active
\* rider (a manual order only once it has a real delivery address).
C22_AssignmentRetried ==
    [][\A id \in 1..Len(orders) :
          (/\ MovedToReady(id)
           /\ orders[id].rider = NONE
           /\ orders[id].order_type = "manual" => ~IsSentinel(orders[id].dropoff_address)
           /\ ResolveLocation(orders[id]) # NONE
           /\ \E r \in active_riders :
                 User[r].service_location = ResolveLocation(orders[id]))
          => orders'[id].rider # NONE]_vars

\* C23: the save of a request that ran beside others on the same order
\* changes only what the request itself changed: a column whose stored value
\* the save alters does not go back to the value the request had read.
C23_NoLostUpdate ==
    [][\A f \in inflight :
          (f \notin inflight' /\ last'.resp = 200)
          => \A field \in DOMAIN orders[f.id] :
                orders'[f.id][field] # orders[f.id][field]
                => orders'[f.id][field] # f.order[field]]_vars

\* C24: an accept request is answered with success only on an order that,
\* when the request saves, has no rider and status requested; the save makes
\* the caller the rider and the status in_progress. (Of two riders accepting
\* one order, only the first can then succeed.)
C24_FirstToClaimWins ==
    [][(last'.op = "accept" /\ last'.resp = 200 /\ calls' = calls + 1)
       => /\ orders[last'.id].rider = NONE
          /\ Lower(orders[last'.id].status) = "requested"
          /\ orders'[last'.id].rider = last'.actor
          /\ orders'[last'.id].status = "in_progress"]_vars

\* The accounts a creation view notifies about order `id`: its customer,
\* every active admin, and its rider if it has one.
Parties(id) ==
    ({orders[id].user, orders[id].rider} \ {NONE}) \cup
    {u \in UserNames : User[u].is_superuser /\ User[u].is_active}

\* The parties without a notification row written by the creation view.
Untold(id) ==
    {u \in Parties(id) :
        ~\E i \in 1..Len(notifications) :
            /\ notifications[i].user = u /\ notifications[i].order = id
            /\ notifications[i].message \in
                  {"placed", "new_online_order", "assigned_to_you",
                   "created_by_staff", "manual_order"}}

\* C25: a creation request during which the notifications of one party fail
\* (no request suffers more than one kind of failure) still leaves the
\* notifications of the other parties: at most one party goes without.
C25_FanOutsIsolated ==
    (last.op \in {"create", "staff_create"} /\ last.resp = 201)
    => Cardinality(Untold(last.id)) <= 1

\* C26: a step that moves an order with a rider into status delivered raises
\* that rider's completed_jobs, and no step lowers any rider's completed_jobs.
C26_CounterGrowsOnDelivery ==
    [][/\ \A id \in 1..Len(orders) :
             (/\ Lower(orders'[id].status) = "delivered"
              /\ Lower(orders[id].status) # "delivered"
              /\ orders[id].rider # NONE)
             => completed_jobs'[orders[id].rider] > completed_jobs[orders[id].rider]
       /\ \A r \in Riders : completed_jobs'[r] >= completed_jobs[r]]_vars

\* The order lies outside the scope of a non-staff account: another location
\* for a washer, folder or rider, another owner for a customer.
OutOfScope(actor, order) ==
    /\ ~User[actor].is_superuser /\ ~User[actor].is_staff
    /\ IF User[actor].role = "customer" THEN order.user # actor
       ELSE order.service_location # User[actor].service_location

\* C27: a transition request of a non-staff account on an order outside its
\* scope is answered 403 and changes neither the order nor its trail.
C27_NonStaffScope ==
    [][\A id \in 1..Len(orders) :
          (PatchCall(id) /\ OutOfScope(last'.actor, orders[id]))
          => /\ last'.resp = 403
             /\ orders' = orders /\ events' = events]_vars

\* C28: in every state, a manual order whose dropoff_address is the unset
\* sentinel has no rider.
C28_SentinelHasNoRider ==
    \A id \in 1..Len(orders) :
        (orders[id].order_type = "manual" /\ IsSentinel(orders[id].dropoff_address))
        => orders[id].rider = NONE

\* The status_changed events of order `id`, oldest first.
StatusTrail(id) == OfType(events[id], "status_changed")

\* C29: in every state the status_changed events of an order form a chain
\* that starts at the status the order was created with (pending_assignment
\* for a manual order, requested otherwise) and ends at its current status.
C29_TrailMatchesOrder ==
    \A id \in 1..Len(orders) :
        /\ \A i \in 2..Len(StatusTrail(id)) :
              StatusTrail(id)[i].data.old = StatusTrail(id)[i - 1].data.new
        /\ StatusTrail(id) # <<>> =>
              /\ StatusTrail(id)[1].data.old =
                    IF orders[id].order_type = "manual" THEN "pending_assignment"
                    ELSE "requested"
              /\ StatusTrail(id)[Len(StatusTrail(id))].data.new = orders[id].status

\* The notification rows the step inserted for the customer of order `id`.
CustomerRows(id) ==
    {i \in 1..Len(notifications') :
        notifications'[i].order = id /\ notifications'[i].user = orders[id].user}

\* C30: a served transition call that changes neither the stored status nor
\* a stored detail field inserts no notification and sends no SMS, and one
\* that changes the status inserts at most one notification for the order's
\* customer.
C30_NotificationsKeyedToChange ==
    [][\A id \in 1..Len(orders) :
          (PatchCall(id) /\ last'.resp = 200)
          => /\ (orders'[id].status = orders[id].status /\ StoredChanges(id) = {})
                => (notifications' = <<>> /\ sms' = <<>>)
             /\ orders'[id].status # orders[id].status
                => Cardinality(CustomerRows(id)) <= 1]_vars

====
